---- MODULE Spec2Model ----
(***************************************************************************)
(* A model of substack_scraper.py: one run of main(), from the parsed      *)
(* command line to the summary manifest, with the sitemap reader, the      *)
(* article extractor and the path planner as operators.                    *)
(*                                                                         *)
(* Text (URLs, lastmod values, file names, paths) is a sequence of         *)
(* one-character strings, so that split, rstrip and concatenation are      *)
(* computed character by character as Python computes them.                *)
(***************************************************************************)
EXTENDS Integers, Sequences, FiniteSets, TLC

VARIABLES
    args,            \* the parsed command line: [paid, output]
    response,        \* what the sitemap request yields (the remote site)
    pc,              \* position of main()
    err,             \* the exception that ended the run, "none" while running
    output_dir,      \* main's local output_dir (a path) ...
    output_dir_bound,\* ... and whether the name has been bound at all
    driver,          \* the selenium session: "none", "open" or "closed"
    urls,            \* the list returned by get_article_urls_and_lastmod
    url_to_lastmod,  \* the dict returned by get_article_urls_and_lastmod
    i,               \* index in urls of the URL the for loop is at
    page,            \* the page fetched for urls[i]
    content,         \* main's local content
    lastmod,         \* main's local lastmod
    opt,             \* index in OutputOption of the inner for loop
    results,         \* main's local results (the manifest)
    skipped,         \* number of "No content found ..., skipping." notices printed
    urls_txt,        \* the file output_dir/urls.txt
    fs,              \* the files below output_dir/html and output_dir/md: path -> content
    summary_json,    \* the file output_dir/summary.json
    plan             \* path planner runs: the inputs and outputs of make_file_path

vars == << args, response, pc, err, output_dir, output_dir_bound, driver, urls,
           url_to_lastmod, i, page, content, lastmod, opt, results, skipped,
           urls_txt, fs, summary_json, plan >>

-----------------------------------------------------------------------------
(* Bounds of the model *)

MaxEntries == 3       \* <url> elements in a sitemap document
MaxUrlLen == 3        \* characters of a URL handed to the path planner

-----------------------------------------------------------------------------
(* Text *)

RECURSIVE AllSeqs(_, _)
AllSeqs(S, n) ==
    IF n = 0 THEN { <<>> }
    ELSE LET shorter == AllSeqs(S, n - 1)
         IN  shorter \cup { Append(s, c) : s \in shorter, c \in S }

\* str.rstrip(ch)
RECURSIVE rstrip(_, _)
rstrip(s, ch) ==
    IF s = <<>> THEN s
    ELSE IF s[Len(s)] = ch THEN rstrip(SubSeq(s, 1, Len(s) - 1), ch)
    ELSE s

\* str.split(sep): the list of the pieces between the separators, never empty
RECURSIVE split(_, _)
split(s, sep) ==
    IF s = <<>> THEN << <<>> >>
    ELSE LET rest == split(Tail(s), sep)
         IN  IF Head(s) = sep
             THEN << <<>> >> \o rest
             ELSE << <<Head(s)>> \o rest[1] >> \o Tail(rest)

-----------------------------------------------------------------------------
(* class OutputOption and the paths of main *)

OutputOption == << "HTML", "MD" >>

OutputOptionValue(output_option) ==
    IF output_option = "HTML" THEN << "h", "t", "m", "l" >> ELSE << "m", "d" >>

\* pathlib's base / name for a relative name
PathJoin(base, name) == base \o << "/" >> \o name

\* as make_file_path, but without url.rstrip("/")
make_file_path_no_rstrip(url, lastmod_, base_dir, output_option) ==
    LET date_part == IF lastmod_ # <<>> THEN split(lastmod_, "T")[1] ELSE <<>>
        last      == split(url, "/")
        base_name == last[Len(last)]
        dated     == IF date_part # <<>>
                     THEN date_part \o << "_" >> \o base_name
                     ELSE base_name
        ext       == OutputOptionValue(output_option)
    IN  PathJoin(base_dir, dated \o << "." >> \o ext)

\* as make_file_path, but the date part is never put before the name
make_file_path_no_date(url, lastmod_, base_dir, output_option) ==
    LET last      == split(rstrip(url, "/"), "/")
        base_name == last[Len(last)]
        ext       == OutputOptionValue(output_option)
    IN  PathJoin(base_dir, base_name \o << "." >> \o ext)

make_file_path(url, lastmod_, base_dir, output_option) ==
    LET date_part == IF lastmod_ # <<>> THEN split(lastmod_, "T")[1] ELSE <<>>
        last      == split(rstrip(url, "/"), "/")
        base_name == last[Len(last)]
        dated     == IF date_part # <<>>
                     THEN date_part \o << "_" >> \o base_name
                     ELSE base_name
        ext       == OutputOptionValue(output_option)
    IN  PathJoin(base_dir, dated \o << "." >> \o ext)

-----------------------------------------------------------------------------
(* Python dicts: finite functions *)

EmptyDict == [k \in {} |-> <<>>]

DictPut(d, k, v) == [x \in (DOMAIN d) \cup {k} |-> IF x = k THEN v ELSE d[x]]

DictGet(d, k, default) == IF k \in DOMAIN d THEN d[k] ELSE default

-----------------------------------------------------------------------------
(* The sitemap reader *)

\* What Tag.find gives: the tag's text, or None
None == [found |-> FALSE, text |-> <<>>]
Tag(text) == [found |-> TRUE, text |-> text]

\* soup.find_all("url") of BeautifulSoup(resp.content, "xml"): the <url> elements
\* of a sitemap document in document order; the parser recovers from any other
\* body (an error page, text that is not XML) with a soup that holds none.
find_all_url(resp) == IF resp.kind = "xml" THEN resp.url_tags ELSE <<>>

RECURSIVE ReadUrlTags(_, _, _)
ReadUrlTags(url_tags, urls_, url_to_lastmod_) ==
    IF url_tags = <<>>
    THEN [urls |-> urls_, url_to_lastmod |-> url_to_lastmod_]
    ELSE LET url_tag  == Head(url_tags)
             loc      == url_tag.loc
             lastmod_ == url_tag.lastmod
         IN  IF loc.found
             THEN ReadUrlTags(Tail(url_tags),
                              Append(urls_, loc.text),
                              DictPut(url_to_lastmod_, loc.text,
                                      IF lastmod_.found THEN lastmod_.text ELSE <<>>))
             ELSE ReadUrlTags(Tail(url_tags), urls_, url_to_lastmod_)

\* as ReadUrlTags, but a URL met again keeps the lastmod it was first given
\* (url_to_lastmod.setdefault instead of the assignment)
RECURSIVE ReadUrlTagsFirstWins(_, _, _)
ReadUrlTagsFirstWins(url_tags, urls_, url_to_lastmod_) ==
    IF url_tags = <<>>
    THEN [urls |-> urls_, url_to_lastmod |-> url_to_lastmod_]
    ELSE LET url_tag  == Head(url_tags)
             loc      == url_tag.loc
             lastmod_ == url_tag.lastmod
         IN  IF loc.found
             THEN ReadUrlTagsFirstWins(
                      Tail(url_tags),
                      Append(urls_, loc.text),
                      IF loc.text \in DOMAIN url_to_lastmod_
                      THEN url_to_lastmod_
                      ELSE DictPut(url_to_lastmod_, loc.text,
                                   IF lastmod_.found THEN lastmod_.text ELSE <<>>))
             ELSE ReadUrlTagsFirstWins(Tail(url_tags), urls_, url_to_lastmod_)

get_article_urls_and_lastmod_setdefault(resp) ==
    ReadUrlTagsFirstWins(find_all_url(resp), <<>>, EmptyDict)

get_article_urls_and_lastmod(resp) == ReadUrlTags(find_all_url(resp), <<>>, EmptyDict)

-----------------------------------------------------------------------------
(* The article extractor and the format converter *)

ArticleMarkup == "<div class=\"available-content\">text</div>"
ArticleMarkdown == "text"

\* soup.find("div", class_="available-content")
find_available_content(page_) ==
    IF page_.container THEN [found |-> TRUE, markup |-> ArticleMarkup]
    ELSE [found |-> FALSE, markup |-> ""]

\* Python's str(): of None it is the text "None"
str(found) == IF found.found THEN found.markup ELSE "None"

extract_article_html(soup) == str(find_available_content(soup))

\* markdownify keeps plain text and drops the container's tags
convert_to_md(html_content) ==
    IF html_content = ArticleMarkup THEN ArticleMarkdown ELSE html_content

convert_to(html_content, output_option) ==
    IF output_option = "HTML" THEN html_content ELSE convert_to_md(html_content)

-----------------------------------------------------------------------------
(* The environment of a run: command lines, sitemap responses, article pages *)

U1 == << "p", "/", "a" >>
U2 == << "p", "/", "b", "/" >>
U3 == << "q", "/", "a" >>
L1 == << "d", "T", "t" >>

ArticleUrls == { U1, U2, U3 }

\* the <url> elements a sitemap document is made of
SitemapUrlTags ==
    { [loc |-> None, lastmod |-> Tag(L1)] }
      \cup { [loc |-> Tag(u), lastmod |-> l] : u \in ArticleUrls, l \in { None, Tag(L1) } }

\* requests.get raises; or it returns a body that is no sitemap document (an
\* error page: the status is never looked at); or it returns a sitemap document
Responses ==
    { [kind |-> k, url_tags |-> <<>>] : k \in { "raise", "garbage" } }
      \cup { [kind |-> "xml", url_tags |-> d] : d \in AllSeqs(SitemapUrlTags, MaxEntries) }

\* --output: the default, or a folder
OutputArgs == { << "." >>, << "o", "u", "t" >> }

Args == [paid : BOOLEAN, output : OutputArgs]

\* the page a fetch returns: with the content container or without
Pages == [container : BOOLEAN]

NoPage == [container |-> FALSE]

\* driver.get / requests.get for an article: it raises, or a page is read
Fetches ==
    { [raises |-> TRUE, page |-> NoPage] }
      \cup { [raises |-> FALSE, page |-> p] : p \in Pages }

NoFile == [exists |-> FALSE, data |-> <<>>]
File(data) == [exists |-> TRUE, data |-> data]

\* the representation directory of an output option, below a folder
BaseDir(dir, output_option) == PathJoin(dir, OutputOptionValue(output_option))

\* what an earlier run left in the representation directories
StaleName == << "o", "l", "d" >>
StalePaths(dir) ==
    { PathJoin(BaseDir(dir, OutputOption[k]), StaleName) : k \in DOMAIN OutputOption }

IsPrefix(p, s) == Len(p) <= Len(s) /\ SubSeq(s, 1, Len(p)) = p

\* shutil.rmtree(base_dir, ignore_errors=True) and base_dir.mkdir(...)
rmtree(files, base_dir) ==
    [f \in { g \in DOMAIN files : ~IsPrefix(base_dir \o << "/" >>, g) } |-> files[f]]

\* open(path, "w") and f.write(data)
write_file(files, path, data) == DictPut(files, path, data)

\* no path planned yet
NoInput == [url |-> <<>>, lastmod |-> <<>>]
NoPlan == [made |-> FALSE, a |-> NoInput, b |-> NoInput, path_a |-> <<>>, path_b |-> <<>>]

Init ==
    /\ args \in Args
    /\ response \in Responses
    /\ pc = "output"
    /\ err = "none"
    /\ output_dir = <<>>
    /\ output_dir_bound = FALSE
    /\ driver = "none"
    /\ urls = <<>>
    /\ url_to_lastmod = EmptyDict
    /\ i = 1
    /\ page = NoPage
    /\ content = ""
    /\ lastmod = <<>>
    /\ opt = 1
    /\ results = <<>>
    /\ skipped = 0
    /\ urls_txt = NoFile
    /\ fs = [f \in StalePaths(args.output) |-> "stale"]
    /\ summary_json = NoFile
    /\ plan = NoPlan

-----------------------------------------------------------------------------
(* main(), statement by statement *)

\* an uncaught exception ends the run where it is raised; raised_at names the call
Raise(raised_at) ==
    /\ pc' = "crashed"
    /\ err' = raised_at

\* the head of "for url in urls": the next URL, or the statement after the loop
LoopPc(next) == IF next <= Len(urls) THEN "fetch" ELSE "summary"

\* if args.output != ".": output_dir = Path(args.output); output_dir.mkdir(...)
ResolveOutput ==
    /\ pc = "output"
    /\ IF args.output # << "." >>
       THEN /\ output_dir' = args.output
            /\ output_dir_bound' = TRUE
       ELSE UNCHANGED << output_dir, output_dir_bound >>
    /\ pc' = "login"
    /\ UNCHANGED << args, response, err, driver, urls, url_to_lastmod, i, page,
                    content, lastmod, opt, results, skipped, urls_txt, fs,
                    summary_json, plan >>

\* driver = None; if args.paid: driver = selenium_login()
Login ==
    /\ pc = "login"
    /\ driver' = IF args.paid THEN "open" ELSE "none"
    /\ pc' = "sitemap"
    /\ UNCHANGED << args, response, err, output_dir, output_dir_bound, urls,
                    url_to_lastmod, i, page, content, lastmod, opt, results,
                    skipped, urls_txt, fs, summary_json, plan >>

\* urls, url_to_lastmod = get_article_urls_and_lastmod(url, TIMEOUT_SECONDS)
FetchSitemap ==
    /\ pc = "sitemap"
    /\ IF response.kind = "raise"
       THEN /\ Raise("sitemap")
            /\ UNCHANGED << urls, url_to_lastmod >>
       ELSE LET got == get_article_urls_and_lastmod(response)
            IN  /\ urls' = got.urls
                /\ url_to_lastmod' = got.url_to_lastmod
                /\ pc' = "store"
                /\ err' = err
    /\ UNCHANGED << args, response, output_dir, output_dir_bound, driver, i, page,
                    content, lastmod, opt, results, skipped, urls_txt, fs,
                    summary_json, plan >>

\* store_sitemap(output_dir / "urls.txt", urls)
StoreSitemap ==
    /\ pc = "store"
    /\ IF ~output_dir_bound
       THEN /\ Raise("output_dir")
            /\ UNCHANGED urls_txt
       ELSE /\ urls_txt' = File(urls)
            /\ pc' = "clear"
            /\ err' = err
    /\ UNCHANGED << args, response, output_dir, output_dir_bound, driver, urls,
                    url_to_lastmod, i, page, content, lastmod, opt, results,
                    skipped, fs, summary_json, plan >>

\* for output_option in OutputOption: rmtree(base_dir); base_dir.mkdir(...)
\* results = []
ClearDirs ==
    /\ pc = "clear"
    /\ fs' = rmtree(rmtree(fs, BaseDir(output_dir, "HTML")), BaseDir(output_dir, "MD"))
    /\ results' = <<>>
    /\ i' = 1
    /\ pc' = LoopPc(1)
    /\ UNCHANGED << args, response, err, output_dir, output_dir_bound, driver, urls,
                    url_to_lastmod, page, content, lastmod, opt, skipped, urls_txt,
                    summary_json, plan >>

\* content = scrape_article_selenium(...) or scrape_article_requests(...)
\* if not content: print(...); continue
\* lastmod = url_to_lastmod.get(url, "")
Scrape ==
    /\ pc = "fetch"
    /\ \E fetch \in Fetches :
          IF fetch.raises
          THEN /\ Raise("article")
               /\ UNCHANGED << page, content, lastmod, opt, i, skipped >>
          ELSE LET html == extract_article_html(fetch.page)
               IN  /\ page' = fetch.page
                   /\ content' = html
                   /\ err' = err
                   /\ IF html = ""
                      THEN /\ skipped' = skipped + 1
                           /\ i' = i + 1
                           /\ pc' = LoopPc(i + 1)
                           /\ UNCHANGED << lastmod, opt >>
                      ELSE /\ lastmod' = DictGet(url_to_lastmod, urls[i], <<>>)
                           /\ opt' = 1
                           /\ pc' = "write"
                           /\ UNCHANGED << i, skipped >>
    /\ UNCHANGED << args, response, output_dir, output_dir_bound, driver, urls,
                    url_to_lastmod, results, urls_txt, fs, summary_json, plan >>

\* as WriteFile, but the file is written for the first output option only
WriteFile_first_option_only ==
    /\ pc = "write"
    /\ LET output_option == OutputOption[opt]
           base_dir      == BaseDir(output_dir, output_option)
           path          == make_file_path(urls[i], lastmod, base_dir, output_option)
       IN  fs' = IF opt = 1
                 THEN write_file(fs, path, convert_to(content, output_option))
                 ELSE fs
    /\ IF opt < Len(OutputOption)
       THEN /\ opt' = opt + 1
            /\ pc' = "write"
       ELSE /\ opt' = opt
            /\ pc' = "append"
    /\ UNCHANGED << args, response, err, output_dir, output_dir_bound, driver, urls,
                    url_to_lastmod, i, page, content, lastmod, results, skipped,
                    urls_txt, summary_json, plan >>

\* for output_option in OutputOption: path = make_file_path(...); open(path, "w"); f.write(...)
WriteFile ==
    /\ pc = "write"
    /\ LET output_option == OutputOption[opt]
           base_dir      == BaseDir(output_dir, output_option)
           path          == make_file_path(urls[i], lastmod, base_dir, output_option)
       IN  fs' = write_file(fs, path, convert_to(content, output_option))
    /\ IF opt < Len(OutputOption)
       THEN /\ opt' = opt + 1
            /\ pc' = "write"
       ELSE /\ opt' = opt
            /\ pc' = "append"
    /\ UNCHANGED << args, response, err, output_dir, output_dir_bound, driver, urls,
                    url_to_lastmod, i, page, content, lastmod, results, skipped,
                    urls_txt, summary_json, plan >>

\* as AppendResult, but with results.insert(0, ...) for results.append(...)
AppendResult_insert_first ==
    /\ pc = "append"
    /\ results' = << [url |-> urls[i], lastmod |-> lastmod] >> \o results
    /\ i' = i + 1
    /\ pc' = LoopPc(i + 1)
    /\ UNCHANGED << args, response, err, output_dir, output_dir_bound, driver, urls,
                    url_to_lastmod, page, content, lastmod, opt, skipped, urls_txt,
                    fs, summary_json, plan >>

\* results.append({"url": url, "lastmod": lastmod})
AppendResult ==
    /\ pc = "append"
    /\ results' = Append(results, [url |-> urls[i], lastmod |-> lastmod])
    /\ i' = i + 1
    /\ pc' = LoopPc(i + 1)
    /\ UNCHANGED << args, response, err, output_dir, output_dir_bound, driver, urls,
                    url_to_lastmod, page, content, lastmod, opt, skipped, urls_txt,
                    fs, summary_json, plan >>

\* with open(summary_path, "w") as f: json.dump(results, f, indent=2)
WriteSummary ==
    /\ pc = "summary"
    /\ summary_json' = File(results)
    /\ pc' = "quit"
    /\ UNCHANGED << args, response, err, output_dir, output_dir_bound, driver, urls,
                    url_to_lastmod, i, page, content, lastmod, opt, results, skipped,
                    urls_txt, fs, plan >>

\* if driver: driver.quit()
Quit ==
    /\ pc = "quit"
    /\ driver' = IF driver # "none" THEN "closed" ELSE driver
    /\ pc' = "done"
    /\ UNCHANGED << args, response, err, output_dir, output_dir_bound, urls,
                    url_to_lastmod, i, page, content, lastmod, opt, results, skipped,
                    urls_txt, fs, summary_json, plan >>

Next ==
    \/ ResolveOutput
    \/ Login
    \/ FetchSitemap
    \/ StoreSitemap
    \/ ClearDirs
    \/ Scrape
    \/ WriteFile
    \/ AppendResult
    \/ WriteSummary
    \/ Quit

Spec == Init /\ [][Next]_vars

-----------------------------------------------------------------------------
(* Properties of a run *)

Running == pc \notin { "done", "crashed" }

\* the sitemap request has returned and its body has been read
SitemapRead == pc \notin { "output", "login", "sitemap" } /\ err # "sitemap"

\* the for loop over urls has been entered or passed
LoopEntered == pc \in { "fetch", "write", "append", "summary", "quit", "done" }

\* both files of (url, lastmod) are in their representation directories
FilesExist(url, lastmod_) ==
    \A k \in DOMAIN OutputOption :
        make_file_path(url, lastmod_, BaseDir(output_dir, OutputOption[k]), OutputOption[k])
            \in DOMAIN fs

\* C1: a fetch failure for one article URL never aborts the run.
C1_FetchFailureNeverAborts == ~(pc = "crashed" /\ err = "article")

\* C2: a page without the content container is detected as "no content": the
\* run never goes on to write files or a manifest entry for it.
C2_NoContainerIsSkipped == (pc \in { "write", "append" }) => page.container

\* C3: a session that was established is closed when the run has ended, on
\* every exit path.
C3_SessionReleased == (~Running) => driver # "open"

\* C4: at every point of a run, every entry of the manifest has its file in
\* each representation directory, at the path make_file_path gives for the
\* entry's (url, lastmod).
C4_ManifestEntriesHaveFiles ==
    \A k \in DOMAIN results : FilesExist(results[k].url, results[k].lastmod)

C4_Witness ==
    /\ pc = "done"
    /\ Len(results) >= 2
    /\ results[1].url # results[2].url

\* C5: when the sitemap request fails or its body is no sitemap document, the
\* run ends with the representation directories as they were and neither
\* urls.txt nor summary.json written.
C5_SitemapFailureIsFatal ==
    (response.kind \in { "raise", "garbage" }) =>
        /\ StalePaths(args.output) \subseteq DOMAIN fs
        /\ ~urls_txt.exists
        /\ ~summary_json.exists
        /\ ~LoopEntered

\* C6: a run started without an output folder is not stopped by it: it goes
\* past the writing of urls.txt like a run with an explicit output folder.
C6_DefaultOutputRuns == (args.output = << "." >>) => err # "output_dir"

-----------------------------------------------------------------------------
(* The sitemap reader's result, stated on the document *)

\* the <url> elements of the document that have a <loc>, in document order
WithLoc(url_tags) == SelectSeq(url_tags, LAMBDA t : t.loc.found)

\* the lastmod text of a <url> element, empty when it has no <lastmod>
OwnLastmod(url_tag) == IF url_tag.lastmod.found THEN url_tag.lastmod.text ELSE <<>>

\* the last element of the document whose loc is u
LastWithLoc(url_tags, u) ==
    LET kept == WithLoc(url_tags)
        at   == CHOOSE k \in DOMAIN kept :
                    /\ kept[k].loc.text = u
                    /\ \A j \in DOMAIN kept : kept[j].loc.text = u => j <= k
    IN  kept[at]

LocsInOrder ==
    LET kept == WithLoc(response.url_tags)
    IN  /\ Len(urls) = Len(kept)
        /\ \A k \in DOMAIN kept : urls[k] = kept[k].loc.text

\* C7 as claimed: the URLs are the loc values in document order, and each
\* returned URL is mapped to the lastmod of its own <url> element.
C7_EachUrlOwnLastmod ==
    SitemapRead =>
        /\ LocsInOrder
        /\ \A k \in DOMAIN urls :
               url_to_lastmod[urls[k]] = OwnLastmod(WithLoc(response.url_tags)[k])

\* C7 amended: the URLs are the loc values in document order, and each
\* returned URL is mapped to the lastmod of the last <url> element that has
\* this loc (empty when that element has no <lastmod>).
C7_UrlsInOrderLastLastmod ==
    SitemapRead =>
        /\ LocsInOrder
        /\ DOMAIN url_to_lastmod = { urls[k] : k \in DOMAIN urls }
        /\ \A u \in DOMAIN url_to_lastmod :
               url_to_lastmod[u] = OwnLastmod(LastWithLoc(response.url_tags, u))

\* an element without <loc> stands before one with, and a URL occurs twice
\* with different lastmod
C7_Witness ==
    /\ SitemapRead
    /\ Len(response.url_tags) = 3
    /\ ~response.url_tags[1].loc.found
    /\ Len(urls) = 2
    /\ urls[1] = urls[2]
    /\ response.url_tags[2].lastmod # response.url_tags[3].lastmod

-----------------------------------------------------------------------------
(* The order of a run *)

\* a is b with some elements left out
RECURSIVE IsSubseq(_, _)
IsSubseq(a, b) ==
    IF a = <<>> THEN TRUE
    ELSE IF b = <<>> THEN FALSE
    ELSE IF Head(a) = Head(b) THEN IsSubseq(Tail(a), Tail(b))
    ELSE IsSubseq(a, Tail(b))

ManifestUrls == [k \in DOMAIN results |-> results[k].url]

\* C10: urls.txt is written and both representation directories are cleared
\* before the first fetch; a URL is fetched only when every URL before it has
\* been skipped or written in every representation and recorded; the manifest
\* is a subsequence of the sitemap URL list; summary.json is written once all
\* URLs have been handled, and holds the manifest.
C10_SequentialInSitemapOrder ==
    /\ LoopEntered =>
          /\ urls_txt = File(urls)
          /\ StalePaths(output_dir) \cap DOMAIN fs = {}
    /\ (pc \in { "fetch", "write", "append" }) =>
          /\ i \in DOMAIN urls
          /\ Len(results) + skipped = i - 1
          /\ IsSubseq(ManifestUrls, SubSeq(urls, 1, i - 1))
          /\ ~summary_json.exists
    /\ (pc = "append") => FilesExist(urls[i], lastmod)
    /\ (pc \in { "summary", "quit", "done" }) =>
          /\ Len(results) + skipped = Len(urls)
          /\ IsSubseq(ManifestUrls, urls)
    /\ summary_json.exists <=> pc \in { "quit", "done" }
    /\ summary_json.exists => summary_json.data = results

C10_Witness ==
    /\ pc = "done"
    /\ Len(results) = 3
    /\ results[1].url # results[2].url
    /\ results[2].url # results[3].url

-----------------------------------------------------------------------------
(* The path planner on its own: make_file_path applied to two (url, lastmod) *)
(* pairs drawn from all short texts, for every output option                 *)

UrlChars == { "a", "/", "_" }

\* lastmod texts: none, a date, another date, a date and a time, a time alone
PlanLastmods ==
    { <<>>, << "a" >>, << "a", "a" >>, << "a", "T", "a" >>, << "T", "a" >> }

PlanInputs == [url : AllSeqs(UrlChars, MaxUrlLen), lastmod : PlanLastmods]

PlanDir == << "o", "u", "t" >>

PlannedPaths(input) ==
    [k \in DOMAIN OutputOption |->
        make_file_path(input.url, input.lastmod,
                       BaseDir(PlanDir, OutputOption[k]), OutputOption[k])]

InitPath ==
    /\ args = [paid |-> FALSE, output |-> PlanDir]
    /\ response = [kind |-> "garbage", url_tags |-> <<>>]
    /\ pc = "plan"
    /\ err = "none"
    /\ output_dir = PlanDir
    /\ output_dir_bound = TRUE
    /\ driver = "none"
    /\ urls = <<>>
    /\ url_to_lastmod = EmptyDict
    /\ i = 1
    /\ page = NoPage
    /\ content = ""
    /\ lastmod = <<>>
    /\ opt = 1
    /\ results = <<>>
    /\ skipped = 0
    /\ urls_txt = NoFile
    /\ fs = EmptyDict
    /\ summary_json = NoFile
    /\ plan = NoPlan

PlanPaths ==
    /\ pc = "plan"
    /\ ~plan.made
    /\ \E a \in PlanInputs, b \in PlanInputs :
          plan' = [made |-> TRUE, a |-> a, b |-> b,
                   path_a |-> PlannedPaths(a), path_b |-> PlannedPaths(b)]
    /\ UNCHANGED << args, response, pc, err, output_dir, output_dir_bound, driver,
                    urls, url_to_lastmod, i, page, content, lastmod, opt, results,
                    skipped, urls_txt, fs, summary_json >>

NextPath == PlanPaths

SpecPath == InitPath /\ [][NextPath]_vars

\* the final non-empty path segment of a URL, trailing slashes ignored
LastSegment(url) ==
    LET n == CHOOSE k \in 0..Len(url) :
                 /\ (k = 0 \/ url[k] # "/")
                 /\ \A j \in (k + 1)..Len(url) : url[j] = "/"
        m == CHOOSE k \in 0..n :
                 /\ (k = 0 \/ url[k] = "/")
                 /\ \A j \in (k + 1)..n : url[j] # "/"
    IN  SubSeq(url, m + 1, n)

\* the part of a lastmod before the 'T' separator (all of it when it has none)
DatePortion(lastmod_) ==
    LET t == CHOOSE k \in 1..(Len(lastmod_) + 1) :
                 /\ (k = Len(lastmod_) + 1 \/ lastmod_[k] = "T")
                 /\ \A j \in 1..(k - 1) : lastmod_[j] # "T"
    IN  SubSeq(lastmod_, 1, t - 1)

Extension(k) == IF k = 1 THEN << "h", "t", "m", "l" >> ELSE << "m", "d" >>

\* baseDir/<datePrefix><lastSegment>.<ext>
PathOf(k, date_prefix, segment) ==
    BaseDir(PlanDir, OutputOption[k]) \o << "/" >> \o date_prefix \o segment
        \o << "." >> \o Extension(k)

\* C8 as claimed: the date prefix is the date portion and one underscore
\* whenever lastmod is present, and empty when lastmod is empty.
C8_DatePrefixWhenLastmodPresent ==
    plan.made =>
        \A k \in DOMAIN OutputOption :
            plan.path_a[k] =
                PathOf(k,
                       IF plan.a.lastmod # <<>>
                       THEN DatePortion(plan.a.lastmod) \o << "_" >>
                       ELSE <<>>,
                       LastSegment(plan.a.url))

\* C8 amended: make_file_path returns baseDir/<datePrefix><lastSegment>.<ext>,
\* where the date prefix is the date portion and one underscore when the date
\* portion is not empty, and is empty when lastmod is empty or starts with 'T'.
C8_DatePrefixWhenDatePresent ==
    plan.made =>
        \A k \in DOMAIN OutputOption :
            plan.path_a[k] =
                PathOf(k,
                       IF DatePortion(plan.a.lastmod) # <<>>
                       THEN DatePortion(plan.a.lastmod) \o << "_" >>
                       ELSE <<>>,
                       LastSegment(plan.a.url))

\* a URL with a trailing slash and a lastmod with a date before its 'T'
C8_Witness ==
    /\ plan.made
    /\ plan.a.url = << "/", "a", "/" >>
    /\ plan.a.lastmod = << "a", "T", "a" >>
    /\ plan.path_a[1] = << "o", "u", "t", "/", "h", "t", "m", "l", "/",
                            "a", "_", "a", ".", "h", "t", "m", "l" >>

SameSegment == LastSegment(plan.a.url) = LastSegment(plan.b.url)
SameDate == DatePortion(plan.a.lastmod) = DatePortion(plan.b.lastmod)

\* C9 as claimed: only pairs that share both the final segment and the date
\* portion map to the same path.
C9_OnlySharedBothCollide ==
    plan.made =>
        \A k \in DOMAIN OutputOption :
            (plan.path_a[k] = plan.path_b[k]) => (SameSegment /\ SameDate)

\* C9 amended: two pairs that differ in exactly one of final segment and date
\* portion map to different paths, and two pairs that share both map to the
\* same path.
C9_OneDifferenceNeverCollides ==
    plan.made =>
        \A k \in DOMAIN OutputOption :
            /\ (SameSegment /\ SameDate) => plan.path_a[k] = plan.path_b[k]
            /\ (SameSegment /\ ~SameDate) => plan.path_a[k] # plan.path_b[k]
            /\ (~SameSegment /\ SameDate) => plan.path_a[k] # plan.path_b[k]

\* two different URLs with the same final segment and different dates
C9_Witness ==
    /\ plan.made
    /\ plan.a.url # plan.b.url
    /\ SameSegment
    /\ LastSegment(plan.a.url) # <<>>
    /\ ~SameDate
    /\ DatePortion(plan.a.lastmod) # <<>>
    /\ DatePortion(plan.b.lastmod) # <<>>
    /\ plan.path_a[1] # plan.path_b[1]

====
